---- MODULE Spec2Model ----
(***************************************************************************)
(* RFD_script.py: batch generation of renewable fuel declarations.         *)
(*                                                                         *)
(* The model follows process_all_supply_blend_rows: the eligibility scan   *)
(* of the source sheet, the per-row call of create_declaration_for_row     *)
(* (extract_row_data, process_declaration_period, sanitize_filename, the   *)
(* template copy, the workbook fill, the PDF export, the Excel save) and   *)
(* cleanup_temp_files.  The spreadsheet engine (xlwings/Excel) and the     *)
(* file system are the environment: what a cell holds, whether an engine   *)
(* call raises and whether a file is locked are chosen nondeterministically*)
(* from small sets.                                                        *)
(*                                                                         *)
(* Text is a sequence of one-character strings.  A cell value is a record  *)
(* [t, n, s]: t is the Python type xlwings returns ("none", "float",       *)
(* "str", "bool", "datetime"), n the number in thousandths (floats) or 0/1 *)
(* (bools), s the text (strings).                                          *)
(***************************************************************************)
EXTENDS Integers, Sequences, FiniteSets, TLC

\* ---------------------------------------------------------------- bounds
\* The largest number of data rows (rows 2..last_row) of the source sheet.
MaxRows == 2
\* The longest text over NameAlphabet handed to the text functions on their own.
MaxLen == 3

\* ------------------------------------------------------- program constants
\* 0.01, the FF blend threshold, in thousandths.
Threshold == 10
\* range(5): the deletion attempts per temporary file.
MaxAttempts == 5

\* ------------------------------------------------------------ cell values
None == [t |-> "none", n |-> 0, s |-> <<>>]
Float(n) == [t |-> "float", n |-> n, s |-> <<>>]
Str(s) == [t |-> "str", n |-> 0, s |-> s]
Bool(b) == [t |-> "bool", n |-> IF b THEN 1 ELSE 0, s |-> <<>>]
DateTime == [t |-> "datetime", n |-> 0, s |-> <<>>]

\* Python truthiness of a cell value: None, "", 0.0 and False are falsy.
Truthy(v) ==
    CASE v.t = "none" -> FALSE
      [] v.t = "str" -> v.s # <<>>
      [] v.t = "float" -> v.n # 0
      [] v.t = "bool" -> v.n = 1
      [] OTHER -> TRUE

\* ------------------------------------------------------------------ text
Digits == <<"0", "1", "2", "3", "4", "5", "6", "7", "8", "9">>
IsDigit(c) == \E i \in 1..10 : Digits[i] = c
DigitVal(c) == (CHOOSE i \in 1..10 : Digits[i] = c) - 1
IsSpace(c) == c = " "

\* s.lstrip(), s.rstrip(), s.strip()
RECURSIVE lstrip(_)
lstrip(s) == IF s # <<>> /\ IsSpace(Head(s)) THEN lstrip(Tail(s)) ELSE s
RECURSIVE rstrip(_)
rstrip(s) ==
    IF s # <<>> /\ IsSpace(s[Len(s)]) THEN rstrip(SubSeq(s, 1, Len(s) - 1)) ELSE s
strip(s) == rstrip(lstrip(s))

AllDigits(s) == \A i \in 1..Len(s) : IsDigit(s[i])
RECURSIVE DigitsVal(_)
DigitsVal(s) ==
    IF s = <<>> THEN 0 ELSE 10 * DigitsVal(SubSeq(s, 1, Len(s) - 1)) + DigitVal(s[Len(s)])

\* The index of the first "." of s, or 0.
DotAt(s) == IF \E i \in 1..Len(s) : s[i] = "."
            THEN CHOOSE i \in 1..Len(s) : s[i] = "." /\ \A j \in 1..(i - 1) : s[j] # "."
            ELSE 0

\* The first three decimals of a digit string, as thousandths.
Thousandths(f) ==
    LET d(i) == IF i <= Len(f) THEN DigitVal(f[i]) ELSE 0
    IN  100 * d(1) + 10 * d(2) + d(3)

\* float(text) for the decimal literals [+-]digits[.digits] (surrounding blanks
\* allowed); every other text raises ValueError.  The value is in thousandths,
\* rounded toward zero, which keeps the comparison with 0.01 exact.
ParseFloat(text) ==
    LET s == strip(text)
        neg == s # <<>> /\ Head(s) = "-"
        u == IF s # <<>> /\ Head(s) \in {"-", "+"} THEN Tail(s) ELSE s
        k == DotAt(u)
        ip == IF k = 0 THEN u ELSE SubSeq(u, 1, k - 1)
        fp == IF k = 0 THEN <<>> ELSE SubSeq(u, k + 1, Len(u))
        wellFormed == AllDigits(ip) /\ AllDigits(fp) /\ Len(ip) + Len(fp) > 0
        mag == 1000 * DigitsVal(ip) + Thousandths(fp)
    IN  IF wellFormed
        THEN [exc |-> "", v |-> IF neg THEN 0 - mag ELSE mag]
        ELSE [exc |-> "ValueError", v |-> 0]

\* float(ff_blend_value): a float is itself, a bool is 0.0 or 1.0, text is
\* parsed, a datetime raises TypeError.
float(v) ==
    CASE v.t = "float" -> [exc |-> "", v |-> v.n]
      [] v.t = "bool" -> [exc |-> "", v |-> 1000 * v.n]
      [] v.t = "str" -> ParseFloat(v.s)
      [] OTHER -> [exc |-> "TypeError", v |-> 0]

\* str(n) for an integer n.
RECURSIVE NatText(_)
NatText(n) == IF n < 10 THEN <<Digits[n + 1]>> ELSE NatText(n \div 10) \o <<Digits[(n % 10) + 1]>>
IntText(n) == IF n < 0 THEN <<"-">> \o NatText(0 - n) ELSE NatText(n)

\* str(x) for a float x given in thousandths: "12.0", "0.5", "0.125".
FloatText(n) ==
    LET m == IF n < 0 THEN 0 - n ELSE n
        f == m % 1000
        d3 == <<Digits[(f \div 100) + 1], Digits[((f \div 10) % 10) + 1], Digits[(f % 10) + 1]>>
        frac == IF f % 100 = 0 THEN SubSeq(d3, 1, 1)
                ELSE IF f % 10 = 0 THEN SubSeq(d3, 1, 2) ELSE d3
    IN  (IF n < 0 THEN <<"-">> ELSE <<>>) \o NatText(m \div 1000) \o <<".">> \o frac

\* str(v) of a cell value.
PyStr(v) ==
    CASE v.t = "str" -> v.s
      [] v.t = "none" -> <<"N", "o", "n", "e">>
      [] v.t = "bool" -> IF v.n = 1 THEN <<"T", "r", "u", "e">> ELSE <<"F", "a", "l", "s", "e">>
      [] v.t = "float" -> FloatText(v.n)
      [] OTHER -> <<"2", "0", "2", "5", "-", "0", "1", "-", "0", "1", " ",
                    "0", "0", ":", "0", "0", ":", "0", "0">>

\* c.isalnum() over the characters the model uses.
Letters == {"A", "B", "C", "D", "E", "F", "G", "H", "I", "J", "K", "L", "M",
            "N", "O", "P", "Q", "R", "S", "T", "U", "V", "W", "X", "Y", "Z",
            "a", "b", "c", "d", "e", "f", "g", "h", "i", "j", "k", "l", "m",
            "n", "o", "p", "q", "r", "s", "t", "u", "v", "w", "x", "y", "z"}
isalnum(c) == c \in Letters \/ IsDigit(c)

\* sanitize_filename(s): keep alphanumerics, ' ', '-', '_' of str(s), then rstrip.
SafeChar(c) == isalnum(c) \/ c \in {" ", "-", "_"}
\* sanitize_filename without the .rstrip().
sanitize_filename_NoRstrip(v) == SelectSeq(PyStr(v), SafeChar)
sanitize_filename(v) == rstrip(SelectSeq(PyStr(v), SafeChar))

\* calendar.month_abbr as a list: '' at index 0, then Jan..Dec at 1..12.
month_abbr ==
    << <<>>, <<"J", "a", "n">>, <<"F", "e", "b">>, <<"M", "a", "r">>, <<"A", "p", "r">>,
       <<"M", "a", "y">>, <<"J", "u", "n">>, <<"J", "u", "l">>, <<"A", "u", "g">>,
       <<"S", "e", "p">>, <<"O", "c", "t">>, <<"N", "o", "v">>, <<"D", "e", "c">> >>

\* list(calendar.month_abbr).index(x): the 0-based index, or -1 for ValueError.
MonthIndex(x) ==
    IF \E j \in 1..Len(month_abbr) : month_abbr[j] = x
    THEN (CHOOSE j \in 1..Len(month_abbr) : month_abbr[j] = x) - 1
    ELSE -1

\* The position of the first " to " of s at or after position from, or 0.
ToSep == <<" ", "t", "o", " ">>
SepAt(s, from) ==
    LET hits == {j \in from..(Len(s) - 3) : SubSeq(s, j, j + 3) = ToSep}
    IN  IF hits = {} THEN 0 ELSE CHOOSE j \in hits : \A h \in hits : j <= h

\* s.split()[0]: the first blank-separated token of s, <<>> when there is none
\* (where Python raises IndexError).
FirstToken(s) ==
    LET t == lstrip(s)
        ends == {j \in 1..Len(t) : IsSpace(t[j])}
        stop == IF ends = {} THEN Len(t) + 1 ELSE CHOOSE j \in ends : \A h \in ends : j <= h
    IN  SubSeq(t, 1, stop - 1)

\* process_declaration_period(declaration_period): [exc, v].  A value without
\* .split (None, a number, a date) raises AttributeError, which the function's
\* except (IndexError, ValueError) does not catch; IndexError and ValueError
\* return the input.
process_declaration_period(p) ==
    IF p.t # "str" THEN [exc |-> "AttributeError", v |-> p]
    ELSE
    LET s == p.s
        a == SepAt(s, 1)
        b == IF a = 0 THEN 0 ELSE SepAt(s, a + 4)
        part0 == IF a = 0 THEN s ELSE SubSeq(s, 1, a - 1)
        part1 == IF b = 0 THEN SubSeq(s, a + 4, Len(s)) ELSE SubSeq(s, a + 4, b - 1)
        start_month == strip(part0)
        end_month == FirstToken(part1)
        start_month_num == MonthIndex(start_month)
        end_month_num == MonthIndex(end_month)
        num_months == end_month_num - start_month_num + 1
    IN  IF a = 0 \/ end_month = <<>> \/ start_month_num = -1 \/ end_month_num = -1
        THEN [exc |-> "", v |-> p]
        ELSE [exc |-> "", v |-> Str(IntText(num_months) \o
                  <<" ", "m", "o", "n", "t", "h", "s", " ", "-", " ">> \o s)]

\* ----------------------------------------------------------------- paths
\* A path of the output folder: the temporary copy
\*   temp_{row}_Renewable_Fuel_Declaration - {name}.xlsm
\* or an output
\*   Renewable_Fuel_Declaration - {certificate} - {period} - {name}.{pdf|xlsm}
TempPath(row, name) ==
    [kind |-> "temp", ext |-> "xlsm", row |-> row, cert |-> <<>>, period |-> <<>>, name |-> name]
OutPath(ext, cert, period, name) ==
    [kind |-> "out", ext |-> ext, row |-> 0, cert |-> cert, period |-> period, name |-> name]

\* main, lines 450-454: the two files the run is given.
source_file ==
    [kind |-> "source", ext |-> "xlsx", row |-> 0, cert |-> <<>>, period |-> <<>>, name |-> <<>>]
template_file ==
    [kind |-> "template", ext |-> "xlsm", row |-> 0, cert |-> <<>>, period |-> <<>>, name |-> <<>>]

temp_excel_file(row, d) == TempPath(row, sanitize_filename(d.customer_name))
pdf_output_file(d) ==
    OutPath("pdf", sanitize_filename(d.certificate_number),
            sanitize_filename(d.declaration_period), sanitize_filename(d.customer_name))
excel_output_file(d) ==
    OutPath("xlsm", sanitize_filename(d.certificate_number),
            sanitize_filename(d.declaration_period), sanitize_filename(d.customer_name))

\* ----------------------------------------------------------------- inputs
\* What the FF blend cell (column E) of a row may hold: empty, 0.009, 0.01,
\* the texts "0.5" and "n/a", a date.
FractionCells ==
    {None, Float(9), Float(Threshold), Str(<<"0", ".", "5">>), Str(<<"n", "/", "a">>), DateTime}
\* What the name cell (column A) of a row may hold.
ScanNameCells == {None, Str(<<>>), Str(<<"A">>)}
\* The sheets of up to MaxRows data rows: table[j] is row j + 1.
RECURSIVE TablesOfLen(_)
TablesOfLen(n) ==
    IF n = 0 THEN {<<>>}
    ELSE {Append(t, [E |-> e, A |-> a]) :
            t \in TablesOfLen(n - 1), e \in FractionCells, a \in ScanNameCells}
Tables == UNION {TablesOfLen(n) : n \in 0..MaxRows}

\* What extract_row_data may read for a row (the columns that decide the flow
\* and the file names: B, K, O, D).
CustomerNameCells == {None, Str(<<"A">>), Str(<<"A", ".">>), Str(<<"B">>)}
CertificateCells == {Str(<<"K", "1">>)}
PeriodCells == {None, Str(<<"J", "a", "n", " ", "t", "o", " ", "M", "a", "r", " ",
                           "2", "0", "2", "5">>)}
VolumeCells == {None, Float(12345)}
RowDataValues ==
    [customer_name : CustomerNameCells, certificate_number : CertificateCells,
     declaration_period : PeriodCells, volume_of_fuel_supplied : VolumeCells]
NoData ==
    [customer_name |-> None, certificate_number |-> None,
     declaration_period |-> None, volume_of_fuel_supplied |-> None]

\* ------------------------------------------------------------------ state
VARIABLES
    pc,                     \* the position of the run
    save_as_pdf, keep_excel,\* the options of the run
    table,                  \* columns E and A of the open source sheet, rows 2..last_row
    row_num,                \* the loop variable of the scan, then of the row loop
    rows_to_process,        \* the rows the scan found
    i,                      \* how many rows of rows_to_process have been started
    row_data,               \* create_declaration_for_row: the extracted row
    pdf_created_successfully,
    exc,                    \* the exception in flight ("" when none)
    output_file,            \* what create_declaration_for_row last returned
    created_files, error_files, temp_files_to_cleanup,
    disk,                   \* the output folder: path -> [row, filled]
    open_books,             \* the workbooks open in the spreadsheet engine
    n,                      \* cleanup_temp_files: index of temp_file in the list
    attempt,                \* cleanup_temp_files: the loop variable of range(5)
    \* history
    calls,                  \* the rows create_declaration_for_row was called for
    ended,                  \* <<row, how>> per call that ended: "path", "none", "raised"
    exported,               \* the rows whose ExportAsFixedFormat succeeded
    export_failed,          \* the rows whose ExportAsFixedFormat raised
    fill_raised,            \* the rows whose field writing (lines 222-243) raised
    cleanup_calls,          \* the arguments cleanup_temp_files was called with
    removed,                \* the paths os.remove deleted
    stats,                  \* per path of the cleanup list: what cleanup did
    effects,                \* <<operation, kind of path>> per file operation made
    \* main: what os.path.exists answers, and whether output_folder is there
    source_exists, template_exists, folder_exists,
    \* the pure functions applied on their own: argument, function, result
    arg, applied, result

vars == <<pc, save_as_pdf, keep_excel, table, row_num, rows_to_process, i, row_data,
          pdf_created_successfully, exc, output_file, created_files, error_files,
          temp_files_to_cleanup, disk, open_books, n, attempt, calls, ended, exported,
          export_failed, fill_raised, cleanup_calls, removed, stats, effects, source_exists,
          template_exists, folder_exists, arg, applied, result>>

options == <<save_as_pdf, keep_excel>>
scan_vars == <<table, row_num, rows_to_process>>
row_vars == <<row_data, pdf_created_successfully, output_file>>
lists == <<created_files, error_files, temp_files_to_cleanup>>
cleanup_vars == <<n, attempt, cleanup_calls, removed, stats>>
hist == <<calls, ended, exported, export_failed, fill_raised>>
env == <<source_exists, template_exists, folder_exists>>
pure == <<arg, applied, result>>

NoPath == [kind |-> "none", ext |-> "", row |-> 0, cert |-> <<>>, period |-> <<>>, name |-> <<>>]
NoFile == [p \in {} |-> 0]
WriteFile(d, p, c) == [q \in DOMAIN d \cup {p} |-> IF q = p THEN c ELSE d[q]]
RemoveFile(d, p) == [q \in DOMAIN d \ {p} |-> d[q]]
exists(p) == p \in DOMAIN disk

last_row == Len(table) + 1

\* The log of file operations: xw.Book(p) is "open", shutil.copy2(p, q) is
\* "read" of p and "write" of q, a cell assignment into the book of p is "cell",
\* ExportAsFixedFormat(p) is "write", save()/save_as(p) is "save", os.remove(p)
\* is "remove".
Did(op, p) == effects \cup {<<op, p.kind>>}

\* No function applied yet, and what an application gives: the exception
\* raised ("" when none) and the value returned.
NoResult == [exc |-> "", v |-> None]

\* Nothing has run yet: the locals, lists and histories before main's first step.
Blank ==
    /\ effects = {}
    /\ table = <<>>
    /\ row_num = 0
    /\ rows_to_process = <<>>
    /\ i = 0
    /\ row_data = NoData
    /\ pdf_created_successfully = FALSE
    /\ exc = ""
    /\ output_file = NoPath
    /\ created_files = <<>>
    /\ error_files = <<>>
    /\ temp_files_to_cleanup = <<>>
    /\ disk = NoFile
    /\ open_books = {}
    /\ n = 0
    /\ attempt = 0
    /\ calls = <<>>
    /\ ended = <<>>
    /\ exported = {}
    /\ export_failed = {}
    /\ fill_raised = {}
    /\ cleanup_calls = <<>>
    /\ removed = {}
    /\ stats = <<>>

Init ==
    /\ pc = "main"
    /\ source_exists \in BOOLEAN
    /\ template_exists \in BOOLEAN
    /\ folder_exists \in BOOLEAN
    /\ save_as_pdf \in BOOLEAN
    /\ keep_excel \in BOOLEAN
    /\ arg = None
    /\ applied = ""
    /\ result = NoResult
    /\ Blank

\* --------------------------------------------------------------------- main
\* Lines 476-480: the source file is missing; main reports and returns.
MissingSource ==
    /\ pc = "main"
    /\ ~source_exists
    /\ pc' = "aborted"
    /\ UNCHANGED <<options, env, pure, effects, scan_vars, i, row_vars, exc, lists, disk,
                   open_books, cleanup_vars, hist>>

\* Lines 482-486: the template file is missing; main reports and returns.
MissingTemplate ==
    /\ pc = "main"
    /\ source_exists
    /\ ~template_exists
    /\ pc' = "aborted"
    /\ UNCHANGED <<options, env, pure, effects, scan_vars, i, row_vars, exc, lists, disk,
                   open_books, cleanup_vars, hist>>

\* MakeDirs without the two os.path.exists tests.
MakeDirs_Unchecked ==
    /\ pc = "main"
    /\ folder_exists' = TRUE
    /\ pc' = "start"
    /\ UNCHANGED <<options, source_exists, template_exists, pure, effects, scan_vars, i,
                   row_vars, exc, lists, disk, open_books, cleanup_vars, hist>>

\* Lines 488-503: both files exist; os.makedirs(output_folder, exist_ok=True),
\* then the call of process_all_supply_blend_rows.
MakeDirs ==
    /\ pc = "main"
    /\ source_exists
    /\ template_exists
    /\ folder_exists' = TRUE
    /\ pc' = "start"
    /\ UNCHANGED <<options, source_exists, template_exists, pure, effects, scan_vars, i,
                   row_vars, exc, lists, disk, open_books, cleanup_vars, hist>>

\* ------------------------------------------------------ the eligibility scan
\* process_all_supply_blend_rows, lines 309-318: open the source sheet; the
\* engine shows what it holds.
OpenSource ==
    /\ pc = "start"
    /\ pc' = "scan"
    /\ open_books' = open_books \cup {"source"}
    /\ table' \in Tables
    /\ row_num' = 2
    /\ rows_to_process' = <<>>
    /\ effects' = Did("open", source_file)
    /\ UNCHANGED <<options, env, pure, i, row_vars, exc, lists, disk, cleanup_vars, hist>>

\* Qualifies with the threshold excluded (> 0.01 where the code has >= 0.01).
Qualifies_Strict(e, a) ==
    /\ e.t # "none"
    /\ float(e).exc = ""
    /\ float(e).v > Threshold
    /\ Truthy(a)

\* Whether the scan appends a row holding FF blend e and name a (lines 326-335).
Qualifies(e, a) ==
    /\ e.t # "none"
    /\ float(e).exc = ""
    /\ float(e).v >= Threshold
    /\ Truthy(a)

\* One iteration of the scan loop, lines 321-336.  A ValueError of float() is
\* caught (continue); any other exception leaves the function.
ScanRow ==
    /\ pc = "scan"
    /\ row_num <= last_row
    /\ LET ff_blend_value == table[row_num - 1].E
           customer_name == table[row_num - 1].A
       IN  IF ff_blend_value.t # "none" /\ float(ff_blend_value).exc = "TypeError"
           THEN /\ pc' = "raised"
                /\ exc' = "TypeError"
                /\ open_books' = {}
                /\ UNCHANGED <<row_num, rows_to_process>>
           ELSE /\ rows_to_process' =
                      IF Qualifies(ff_blend_value, customer_name)
                      THEN Append(rows_to_process, row_num) ELSE rows_to_process
                /\ row_num' = row_num + 1
                /\ UNCHANGED <<pc, exc, open_books>>
    /\ UNCHANGED <<options, env, pure, effects, table, i, row_vars, lists, disk, cleanup_vars, hist>>

\* Lines 338-346: close the source sheet (its cells are out of reach from here
\* on), start the row loop with empty lists.
ScanClose ==
    /\ pc = "scan"
    /\ row_num > last_row
    /\ pc' = "loop"
    /\ open_books' = open_books \ {"source"}
    /\ table' = <<>>
    /\ created_files' = <<>>
    /\ error_files' = <<>>
    /\ temp_files_to_cleanup' = <<>>
    /\ i' = 0
    /\ UNCHANGED <<options, env, pure, effects, row_num, rows_to_process, row_vars, exc, disk, cleanup_vars, hist>>

\* ------------------------------------------------------------ the row loop
\* Lines 348-355 and 179: the next row of rows_to_process; call
\* create_declaration_for_row for it.
CallCreate ==
    /\ pc = "loop"
    /\ i < Len(rows_to_process)
    /\ i' = i + 1
    /\ row_num' = rows_to_process[i + 1]
    /\ calls' = Append(calls, rows_to_process[i + 1])
    /\ pc' = "extract"
    /\ UNCHANGED <<options, env, pure, effects, table, rows_to_process, row_vars, exc, lists, disk, open_books,
                   cleanup_vars, ended, exported, export_failed, fill_raised>>

\* Leaving the with block of extract_row_data by an exception: the engine
\* quits, and the exception leaves create_declaration_for_row.
ExtractRaises ==
    /\ open_books' = open_books \ {"source"}
    /\ exc' = "extract_row_data failed"
    /\ pc' = "except"
    /\ ended' = Append(ended, <<row_num, "raised">>)
    /\ row_data' = row_data

\* Line 182, extract_row_data (lines 67-71): start the engine and open the
\* source workbook.  The engine may raise.
OpenForExtract ==
    /\ pc = "extract"
    /\ effects' = Did("open", source_file)
    /\ \/ /\ open_books' = open_books \cup {"source"}
          /\ pc' = "read"
          /\ UNCHANGED <<exc, ended, row_data>>
       \/ ExtractRaises
    /\ UNCHANGED <<options, env, pure, scan_vars, i, pdf_created_successfully, output_file,
                   lists, disk, cleanup_vars, calls, exported, export_failed, fill_raised>>

\* extract_row_data, lines 73-97: read the cells of the row, close the
\* workbook, return row_data.  A read or the close may raise.
ExtractRowData ==
    /\ pc = "read"
    /\ \/ \E d \in RowDataValues :
            /\ row_data' = d
            /\ open_books' = open_books \ {"source"}
            /\ pc' = "check"
            /\ UNCHANGED <<exc, ended>>
       \/ ExtractRaises
    /\ UNCHANGED <<options, env, pure, effects, scan_vars, i, pdf_created_successfully,
                   output_file, lists, disk, cleanup_vars, calls, exported, export_failed, fill_raised>>

\* Lines 185-205: return None for an empty customer name; otherwise derive the
\* period text (which may raise) and the file names.
CheckName ==
    /\ pc = "check"
    /\ IF ~Truthy(row_data.customer_name)
       THEN /\ output_file' = NoPath
            /\ pc' = "returned"
            /\ ended' = Append(ended, <<row_num, "none">>)
            /\ exc' = exc
       ELSE IF process_declaration_period(row_data.declaration_period).exc # ""
       THEN /\ exc' = process_declaration_period(row_data.declaration_period).exc
            /\ pc' = "except"
            /\ ended' = Append(ended, <<row_num, "raised">>)
            /\ output_file' = output_file
       ELSE /\ pc' = "copy"
            /\ UNCHANGED <<exc, output_file, ended>>
    /\ UNCHANGED <<options, env, pure, effects, scan_vars, i, row_data, pdf_created_successfully, lists, disk,
                   open_books, cleanup_vars, calls, exported, export_failed, fill_raised>>

\* Lines 207-211: shutil.copy2(template_file, temp_excel_file), outside the try.
CopyTemplate ==
    /\ pc = "copy"
    /\ \/ /\ disk' = WriteFile(disk, temp_excel_file(row_num, row_data),
                               [row |-> row_num, filled |-> FALSE])
          /\ pdf_created_successfully' = FALSE
          /\ pc' = "open"
          /\ UNCHANGED <<exc, ended>>
       \/ /\ exc' = "copy2 failed"
          /\ pc' = "except"
          /\ ended' = Append(ended, <<row_num, "raised">>)
          /\ UNCHANGED <<disk, pdf_created_successfully>>
    /\ effects' = Did("read", template_file) \cup Did("write", temp_excel_file(row_num, row_data))
    /\ UNCHANGED <<options, env, pure, scan_vars, i, row_data, output_file, lists, open_books,
                   cleanup_vars, calls, exported, export_failed, fill_raised>>

\* OuterExcept with an engine that outlives the with block: the workbook of
\* the temporary copy stays open.
OuterExcept_Leaks ==
    /\ open_books' = open_books
    /\ pdf_created_successfully' = FALSE
    /\ pc' = "register"

\* The outer handler of create_declaration_for_row, lines 270-272: leaving the
\* with block quits the engine, then pdf_created_successfully = False.
OuterExcept ==
    /\ open_books' = open_books \ {"temp"}
    /\ pdf_created_successfully' = FALSE
    /\ pc' = "register"

\* BookPath as the template itself: the declaration is filled in place.
BookPath_Template == template_file

\* Line 218: the workbook create_declaration_for_row opens, fills and saves.
BookPath == temp_excel_file(row_num, row_data)

\* Lines 216-218: start the engine and open the temporary copy.
OpenBook ==
    /\ pc = "open"
    /\ \/ /\ open_books' = open_books \cup {"temp"}
          /\ pc' = "fill"
          /\ UNCHANGED pdf_created_successfully
       \/ OuterExcept
    /\ effects' = Did("open", BookPath)
    /\ UNCHANGED <<options, env, pure, scan_vars, i, row_data, exc, output_file, lists, disk,
                   cleanup_vars, hist>>

\* Lines 222-243: build update_data (round() of an absent volume raises
\* TypeError) and write the fields into the open copy; a write may raise.
FillFields ==
    /\ pc = "fill"
    /\ \/ /\ row_data.volume_of_fuel_supplied.t = "float"
          /\ pc' = "export"
          /\ UNCHANGED <<open_books, pdf_created_successfully, fill_raised>>
       \/ /\ OuterExcept
          /\ fill_raised' = fill_raised \cup {row_num}
    /\ effects' = Did("cell", BookPath)
    /\ UNCHANGED <<options, env, pure, scan_vars, i, row_data, exc, output_file, lists, disk,
                   cleanup_vars, calls, ended, exported, export_failed>>

\* Lines 246-255: the PDF export, with its own handler.
ExportPdf ==
    /\ pc = "export"
    /\ pc' = "save"
    /\ IF save_as_pdf
       THEN \/ /\ disk' = WriteFile(disk, pdf_output_file(row_data),
                                    [row |-> row_num, filled |-> TRUE])
               /\ pdf_created_successfully' = TRUE
               /\ exported' = exported \cup {row_num}
               /\ UNCHANGED export_failed
            \/ /\ pdf_created_successfully' = FALSE
               /\ export_failed' = export_failed \cup {row_num}
               /\ UNCHANGED <<disk, exported>>
       ELSE UNCHANGED <<disk, pdf_created_successfully, exported, export_failed>>
    /\ effects' = IF save_as_pdf THEN Did("write", pdf_output_file(row_data)) ELSE effects
    /\ UNCHANGED <<options, env, pure, scan_vars, i, row_data, exc, output_file, lists, open_books,
                   cleanup_vars, calls, ended, fill_raised>>

\* Lines 258-265: save_as(excel_output_file) when keep_excel, else save() of the
\* temporary copy in place when the PDF export failed.  Either may raise.
SaveExcel ==
    /\ pc = "save"
    /\ LET saved == IF keep_excel THEN excel_output_file(row_data) ELSE BookPath
       IN  IF keep_excel \/ (save_as_pdf /\ ~pdf_created_successfully)
           THEN /\ effects' = Did("save", saved)
                /\ \/ /\ disk' = WriteFile(disk, saved, [row |-> row_num, filled |-> TRUE])
                      /\ pc' = "close"
                      /\ UNCHANGED <<open_books, pdf_created_successfully>>
                   \/ /\ OuterExcept
                      /\ disk' = disk
           ELSE /\ pc' = "close"
                /\ UNCHANGED <<disk, open_books, pdf_created_successfully, effects>>
    /\ UNCHANGED <<options, env, pure, scan_vars, i, row_data, exc, output_file, lists,
                   cleanup_vars, hist>>

\* Line 268: wb.close(), which may raise.
CloseBook ==
    /\ pc = "close"
    /\ \/ /\ open_books' = open_books \ {"temp"}
          /\ pc' = "register"
          /\ UNCHANGED pdf_created_successfully
       \/ OuterExcept
    /\ UNCHANGED <<options, env, pure, effects, scan_vars, i, row_data, exc, output_file, lists, disk,
                   cleanup_vars, hist>>

\* Registers without the test of pdf_created_successfully.
Registers_Always == save_as_pdf /\ ~keep_excel

\* Line 275: whether the temporary copy goes on the cleanup list.
Registers == save_as_pdf /\ pdf_created_successfully /\ ~keep_excel
\* Line 279: the returned path.
Returned ==
    IF save_as_pdf /\ pdf_created_successfully
    THEN pdf_output_file(row_data) ELSE excel_output_file(row_data)

\* Lines 274-279: register the temporary copy, return the path.
RegisterAndReturn ==
    /\ pc = "register"
    /\ temp_files_to_cleanup' =
          IF Registers
          THEN Append(temp_files_to_cleanup, temp_excel_file(row_num, row_data))
          ELSE temp_files_to_cleanup
    /\ output_file' = Returned
    /\ pc' = "returned"
    /\ ended' = Append(ended, <<row_num, "path">>)
    /\ UNCHANGED <<options, env, pure, effects, scan_vars, i, row_data, pdf_created_successfully, exc,
                   created_files, error_files, disk, open_books, cleanup_vars, calls,
                   exported, export_failed, fill_raised>>

\* RecordResult without the test of output_file: None is appended to
\* created_files like a path.
RecordResult_CountsSkip ==
    /\ pc = "returned"
    /\ created_files' = Append(created_files, output_file)
    /\ pc' = "loop"
    /\ row_data' = NoData
    /\ pdf_created_successfully' = FALSE
    /\ UNCHANGED <<options, env, pure, effects, scan_vars, i, output_file, exc, error_files,
                   temp_files_to_cleanup, disk, open_books, cleanup_vars, hist>>

\* Lines 357-361: a returned path goes to created_files, None is a skip.  The
\* locals of the finished call are gone.
RecordResult ==
    /\ pc = "returned"
    /\ created_files' =
          IF output_file # NoPath THEN Append(created_files, output_file) ELSE created_files
    /\ pc' = "loop"
    /\ row_data' = NoData
    /\ pdf_created_successfully' = FALSE
    /\ UNCHANGED <<options, env, pure, effects, scan_vars, i, output_file, exc, error_files,
                   temp_files_to_cleanup, disk, open_books, cleanup_vars, hist>>

\* CatchRowError without a handler: the exception of a row leaves
\* process_all_supply_blend_rows.
CatchRowError_Propagates ==
    /\ pc = "except"
    /\ pc' = "raised"
    /\ UNCHANGED <<options, env, pure, effects, scan_vars, i, row_vars, exc, lists, disk, open_books,
                   cleanup_vars, hist>>

\* CatchRowError with a retry: the handler records the error and steps the
\* loop back to the row that raised.
CatchRowError_Retry ==
    /\ pc = "except"
    /\ error_files' = Append(error_files, <<row_num, exc>>)
    /\ exc' = ""
    /\ pc' = "loop"
    /\ i' = i - 1
    /\ row_data' = NoData
    /\ pdf_created_successfully' = FALSE
    /\ UNCHANGED <<options, env, pure, effects, scan_vars, output_file, created_files,
                   temp_files_to_cleanup, disk, open_books, cleanup_vars, hist>>

\* CatchRowError with an empty handler: the exception is swallowed and the
\* row is recorded nowhere.
CatchRowError_Silent ==
    /\ pc = "except"
    /\ error_files' = error_files
    /\ exc' = ""
    /\ pc' = "loop"
    /\ row_data' = NoData
    /\ pdf_created_successfully' = FALSE
    /\ UNCHANGED <<options, env, pure, effects, scan_vars, i, output_file, created_files,
                   temp_files_to_cleanup, disk, open_books, cleanup_vars, hist>>

\* Lines 363-365: the handler of the row loop.  The locals of the call that
\* raised are gone.
CatchRowError ==
    /\ pc = "except"
    /\ error_files' = Append(error_files, <<row_num, exc>>)
    /\ exc' = ""
    /\ pc' = "loop"
    /\ row_data' = NoData
    /\ pdf_created_successfully' = FALSE
    /\ UNCHANGED <<options, env, pure, effects, scan_vars, i, output_file, created_files,
                   temp_files_to_cleanup, disk, open_books, cleanup_vars, hist>>

\* ---------------------------------------------------------------- cleanup
\* What cleanup has done for one path so far: deletion attempts started,
\* os.remove calls, pauses, how it ended ("" while pending), and the number of
\* attempts made when the file was removed from outside (-1: it was not).
NoStats == [attempts |-> 0, removes |-> 0, sleeps |-> 0, result |-> "", gone_at |-> -1]

\* CallCleanup inside the row loop: cleanup_temp_files is called whenever the
\* loop has control, not only after the last row.
CallCleanup_InLoop ==
    /\ pc = "loop"
    /\ cleanup_calls' = Append(cleanup_calls, temp_files_to_cleanup)
    /\ stats' = [j \in 1..Len(temp_files_to_cleanup) |-> NoStats]
    /\ attempt' = 0
    /\ IF temp_files_to_cleanup = <<>>
       THEN pc' = "summary" /\ n' = n
       ELSE pc' = "attempt" /\ n' = 1
    /\ UNCHANGED <<options, env, pure, effects, scan_vars, i, row_vars, exc, lists, disk, open_books, removed,
                   hist>>

\* Line 369 and lines 405-411: call cleanup_temp_files(temp_files_to_cleanup);
\* an empty list returns at once.
CallCleanup ==
    /\ pc = "loop"
    /\ i = Len(rows_to_process)
    /\ cleanup_calls' = Append(cleanup_calls, temp_files_to_cleanup)
    /\ stats' = [j \in 1..Len(temp_files_to_cleanup) |-> NoStats]
    /\ attempt' = 0
    /\ IF temp_files_to_cleanup = <<>>
       THEN pc' = "summary" /\ n' = n
       ELSE pc' = "attempt" /\ n' = 1
    /\ UNCHANGED <<options, env, pure, effects, scan_vars, i, row_vars, exc, lists, disk, open_books, removed, hist>>

\* Leaving the inner loop of cleanup_temp_files (break, or its else clause):
\* the next temp_file, or the end of the list.
NextFile ==
    /\ attempt' = 0
    /\ IF n < Len(temp_files_to_cleanup)
       THEN n' = n + 1 /\ pc' = "attempt"
       ELSE n' = n /\ pc' = "summary"

\* TryDelete without the os.path.exists test: os.remove of an absent file
\* raises like any failed removal.
TryDelete_NoExistsTest ==
    /\ pc = "attempt"
    /\ attempt < MaxAttempts
    /\ effects' = Did("remove", temp_files_to_cleanup[n])
    /\ LET temp_file == temp_files_to_cleanup[n]
           st == [stats[n] EXCEPT !.attempts = @ + 1, !.removes = @ + 1]
       IN  \/ /\ exists(temp_file)
              /\ disk' = RemoveFile(disk, temp_file)
              /\ removed' = removed \cup {temp_file}
              /\ stats' = [stats EXCEPT ![n] = [st EXCEPT !.result = "deleted"]]
              /\ NextFile
           \/ /\ stats' = [stats EXCEPT ![n] = st]
              /\ pc' = "sleep"
              /\ UNCHANGED <<disk, removed, n, attempt>>
    /\ UNCHANGED <<options, env, pure, scan_vars, i, row_vars, exc, lists, open_books, cleanup_calls,
                   hist>>

\* Lines 415-422: one deletion attempt.  An absent file breaks at once, a
\* removed file breaks, a failed os.remove goes to the pause.
TryDelete ==
    /\ pc = "attempt"
    /\ attempt < MaxAttempts
    /\ LET temp_file == temp_files_to_cleanup[n]
           st == [stats[n] EXCEPT !.attempts = @ + 1]
       IN  IF ~exists(temp_file)
           THEN /\ stats' = [stats EXCEPT ![n] = [st EXCEPT !.result = "absent"]]
                /\ NextFile
                /\ UNCHANGED <<disk, removed, effects>>
           ELSE /\ effects' = Did("remove", temp_file)
                /\ \/ /\ disk' = RemoveFile(disk, temp_file)
                      /\ removed' = removed \cup {temp_file}
                      /\ stats' = [stats EXCEPT ![n] =
                                     [st EXCEPT !.removes = @ + 1, !.result = "deleted"]]
                      /\ NextFile
                   \/ /\ stats' = [stats EXCEPT ![n] = [st EXCEPT !.removes = @ + 1]]
                      /\ pc' = "sleep"
                      /\ UNCHANGED <<disk, removed, n, attempt>>
    /\ UNCHANGED <<options, env, pure, scan_vars, i, row_vars, exc, lists, open_books, cleanup_calls, hist>>

\* Line 423: time.sleep(1) in the handler, then the next value of range(5).
Sleep ==
    /\ pc = "sleep"
    /\ stats' = [stats EXCEPT ![n].sleeps = @ + 1]
    /\ attempt' = attempt + 1
    /\ pc' = "attempt"
    /\ UNCHANGED <<options, env, pure, effects, scan_vars, i, row_vars, exc, lists, disk, open_books, n,
                   cleanup_calls, removed, hist>>

\* GiveUp one attempt early.
GiveUp_Early ==
    /\ pc = "attempt"
    /\ attempt = MaxAttempts - 1
    /\ stats' = [stats EXCEPT ![n].result = "undeleted"]
    /\ NextFile
    /\ UNCHANGED <<options, env, pure, effects, scan_vars, i, row_vars, exc, lists, disk, open_books,
                   cleanup_calls, removed, hist>>

\* Lines 424-426: range(5) is exhausted without a break.
GiveUp ==
    /\ pc = "attempt"
    /\ attempt = MaxAttempts
    /\ stats' = [stats EXCEPT ![n].result = "undeleted"]
    /\ NextFile
    /\ UNCHANGED <<options, env, pure, effects, scan_vars, i, row_vars, exc, lists, disk, open_books,
                   cleanup_calls, removed, hist>>

\* The environment of lines 417-418: while cleanup works on a file, something
\* else removes it.
ExternalRemove ==
    /\ pc \in {"attempt", "sleep"}
    /\ exists(temp_files_to_cleanup[n])
    /\ disk' = RemoveFile(disk, temp_files_to_cleanup[n])
    /\ stats' = [stats EXCEPT ![n].gone_at = stats[n].attempts]
    /\ UNCHANGED <<pc, options, env, pure, effects, scan_vars, i, row_vars, exc, lists, open_books, n, attempt,
                   cleanup_calls, removed, hist>>

\* Lines 371-389: the final report; process_all_supply_blend_rows returns.
Finish ==
    /\ pc = "summary"
    /\ pc' = "done"
    /\ UNCHANGED <<options, env, pure, effects, scan_vars, i, row_vars, exc, lists, disk, open_books,
                   cleanup_vars, hist>>

Next ==
    \/ MissingSource \/ MissingTemplate \/ MakeDirs
    \/ OpenSource \/ ScanRow \/ ScanClose
    \/ CallCreate \/ OpenForExtract \/ ExtractRowData \/ CheckName \/ CopyTemplate \/ OpenBook
    \/ FillFields \/ ExportPdf \/ SaveExcel \/ CloseBook \/ RegisterAndReturn
    \/ RecordResult \/ CatchRowError
    \/ CallCleanup \/ TryDelete \/ Sleep \/ GiveUp \/ ExternalRemove \/ Finish

Spec == Init /\ [][Next]_vars

\* ------------------------------------------- the two text functions on their own
\* The texts of at most MaxLen characters over a letter, a digit, the three
\* other characters sanitize_filename keeps, and two it drops.
NameAlphabet == {"A", "1", " ", "-", "_", ".", "&"}
RECURSIVE TextsOfLen(_)
TextsOfLen(k) ==
    IF k = 0 THEN {<<>>}
    ELSE {Append(t, c) : t \in TextsOfLen(k - 1), c \in NameAlphabet}
NameTexts == UNION {TextsOfLen(k) : k \in 0..MaxLen}

\* Period texts: a start token, " to ", an end token and a year, each part
\* present or not; the tokens are month abbreviations, other words or empty.
MonthTokens ==
    {<<>>, <<"J", "a", "n">>, <<"M", "a", "r">>, <<"D", "e", "c">>, <<"X", "y", "z">>,
     <<"j", "a", "n">>}
YearTails == {<<>>, <<" ", "2", "0", "2", "5">>}
PeriodTexts ==
    {a \o ToSep \o b \o y : a \in MonthTokens, b \in MonthTokens, y \in YearTails}
    \cup {<<" ">> \o a \o <<" ">> \o ToSep \o <<" ">> \o b \o y :
              a \in MonthTokens, b \in MonthTokens, y \in YearTails}
    \cup {a \o y : a \in MonthTokens, y \in YearTails}

\* What a cell handed to the two functions may hold: nothing, a date, a
\* number, a boolean, a text.
PureArgs ==
    {None, DateTime, Float(7000), Float(12345), Bool(TRUE)}
    \cup {Str(t) : t \in NameTexts \cup PeriodTexts}

\* One of the functions is about to be called with arg; main's options
\* (lines 465, 469) and nothing else of the program is involved.
PureInit ==
    /\ pc = "pure"
    /\ arg \in PureArgs
    /\ applied = ""
    /\ result = NoResult
    /\ source_exists = TRUE
    /\ template_exists = TRUE
    /\ folder_exists = TRUE
    /\ save_as_pdf = TRUE
    /\ keep_excel = FALSE
    /\ Blank

\* Line 190: process_declaration_period(arg).
ApplyPeriod ==
    /\ pc = "pure"
    /\ applied = ""
    /\ applied' = "process_declaration_period"
    /\ result' = process_declaration_period(arg)
    /\ UNCHANGED <<pc, arg, options, env, effects, scan_vars, i, row_vars, exc, lists, disk,
                   open_books, cleanup_vars, hist>>

\* Lines 193-195: sanitize_filename(arg).
ApplySanitize ==
    /\ pc = "pure"
    /\ applied = ""
    /\ applied' = "sanitize_filename"
    /\ result' = [exc |-> "", v |-> Str(sanitize_filename(arg))]
    /\ UNCHANGED <<pc, arg, options, env, effects, scan_vars, i, row_vars, exc, lists, disk,
                   open_books, cleanup_vars, hist>>

PureNext == ApplyPeriod \/ ApplySanitize

PureSpec == PureInit /\ [][PureNext]_vars

\* =================================================================== claims
\* The row numbers of a list of <<row, ...>> entries.
RowsOf(entries) == [j \in DOMAIN entries |-> entries[j][1]]
\* The rows whose call ended the given way, in the order the calls ended.
EndedHow(how) == RowsOf(SelectSeq(ended, LAMBDA e : e[2] = how))
\* create_declaration_for_row is running.
InFlight == pc \in {"extract", "read", "check", "copy", "open", "fill", "export", "save", "close",
                    "register"}
\* The scan loop has run to its end: rows_to_process is built.
ScanDone == pc = "scan" /\ row_num > last_row
IsAscending(q) == \A j, k \in DOMAIN q : j < k => q[j] < q[k]

\* C1 -- the eligibility predicate in the claim's words: the fraction cell is
\* present, parses to a number, the number is >= 0.01, the name is non-empty.
C1_Eligible(r) ==
    LET e == table[r - 1].E
        a == table[r - 1].A
    IN  /\ e # None
        /\ float(e).exc = ""
        /\ float(e).v >= 10
        /\ a # None /\ a # Str(<<>>)

C2_RowErrorIsRecordedAndBatchGoesOn ==
    /\ IF pc = "except"
       THEN EndedHow("raised") = Append(RowsOf(error_files), row_num)
       ELSE EndedHow("raised") = RowsOf(error_files)
    /\ \A j \in DOMAIN error_files : error_files[j][2] # ""
    /\ pc = "raised" => calls = <<>>
    /\ pc \in {"attempt", "sleep", "summary", "done"} =>
          calls = rows_to_process /\ Len(cleanup_calls) = 1

\* C2 witness: the run is over; the first row raised, the second row was
\* called after it and gave a file, and cleanup ran.
C2_Witness ==
    /\ pc = "done"
    /\ Len(rows_to_process) = 2
    /\ RowsOf(error_files) = <<rows_to_process[1]>>
    /\ ended = <<<<rows_to_process[1], "raised">>, <<rows_to_process[2], "path">>>>
    /\ Len(created_files) = 1
    /\ Len(cleanup_calls) = 1

\* C3: a call that returns a path without a successful PDF export returns the
\* .xlsm path and has not put its temporary copy on the cleanup list; every
\* path of the cleanup list is the temporary copy of a row whose PDF export
\* succeeded.
C3_FailedExportNotRegistered ==
    /\ (pc = "returned" /\ output_file # NoPath /\ row_num \notin exported) =>
          /\ output_file.ext = "xlsm"
          /\ \A j \in DOMAIN temp_files_to_cleanup :
                temp_files_to_cleanup[j] # temp_excel_file(row_num, row_data)
    /\ \A j \in DOMAIN temp_files_to_cleanup :
          /\ temp_files_to_cleanup[j].kind = "temp"
          /\ temp_files_to_cleanup[j].row \in exported

\* C3 witness: the second row's PDF export failed and its temporary copy was
\* saved in place; the call returned while the first row's copy is registered.
C3_Witness ==
    /\ pc = "returned"
    /\ save_as_pdf /\ ~keep_excel
    /\ output_file # NoPath
    /\ row_num \notin exported
    /\ exists(temp_excel_file(row_num, row_data))
    /\ disk[temp_excel_file(row_num, row_data)].filled
    /\ Len(temp_files_to_cleanup) = 1

\* The call of create_declaration_for_row for row r is over.
CallOver(r) ==
    /\ \E j \in DOMAIN ended : ended[j][1] = r

\* C4: whenever create_declaration_for_row returns a path, a document written
\* for that row is on disk at exactly that path.
C4_ReturnedPathHoldsRowDocument ==
    (pc = "returned" /\ output_file # NoPath) =>
        /\ exists(output_file)
        /\ disk[output_file] = [row |-> row_num, filled |-> TRUE]

\* C5: a row whose field writing raised is recorded in error_files and gives
\* no path: its call does not return, and once the row loop has control again
\* an error_files entry names the row.
C5_FillErrorReachesOrchestrator ==
    \A r \in fill_raised :
        /\ \A j \in DOMAIN ended : ended[j][1] = r => ended[j][2] = "raised"
        /\ (CallOver(r) /\ pc # "except") => \E j \in DOMAIN error_files : error_files[j][1] = r

\* C6: once the call of a row whose PDF export succeeded is over, the row's
\* temporary copy is on the cleanup list, also with keep_excel.
C6_ExportedRowIsRegistered ==
    \A r \in exported :
        CallOver(r) =>
            \E j \in DOMAIN temp_files_to_cleanup :
                temp_files_to_cleanup[j].kind = "temp" /\ temp_files_to_cleanup[j].row = r

\* cleanup_temp_files is past the j-th path of its list.
Pending(j) == stats[j].result = ""
PastLoop == pc \in {"attempt", "sleep", "summary", "done"}

\* C7: cleanup_temp_files never makes more than 5 attempts for a path; a path
\* that is there and is never removed (every attempt a failed os.remove) ends
\* after exactly 5 attempts, reported undeleted; cleanup does not raise, and
\* when it returns every path of the list has been attempted.
C7_GivesUpAfterFiveAttempts ==
    /\ cleanup_calls # <<>> => (pc # "raised" /\ exc = "")
    /\ \A j \in DOMAIN stats :
          /\ stats[j].attempts <= 5
          /\ stats[j].result = "undeleted" =>
                (stats[j].attempts = 5 /\ stats[j].removes = 5)
          /\ (~Pending(j) /\ stats[j].gone_at = -1 /\ stats[j].result # "deleted") =>
                (stats[j].result = "undeleted" /\ stats[j].attempts = 5)
    /\ pc \in {"summary", "done"} =>
          /\ DOMAIN stats = DOMAIN temp_files_to_cleanup
          /\ \A j \in DOMAIN stats : ~Pending(j) /\ stats[j].attempts >= 1

\* C7 witness: cleanup returned; the first of two paths stayed locked through
\* 5 attempts and is reported undeleted, the second was attempted and deleted.
C7_Witness ==
    /\ pc = "done"
    /\ Len(stats) = 2
    /\ stats[1].result = "undeleted" /\ stats[1].attempts = 5 /\ stats[1].gone_at = -1
    /\ exists(temp_files_to_cleanup[1])
    /\ stats[2].result = "deleted"

\* C8: what a finished path records: a deleted path was deleted by its last
\* attempt, an absent path had no os.remove call on its last attempt, and a
\* path removed from outside after g < 5 attempts ends absent on attempt g + 1
\* with g os.remove calls (g = 2: on the 3rd attempt; g = 0: no os.remove call
\* and no pause at all).
C8_Finished ==
    \A j \in DOMAIN stats :
        /\ stats[j].result = "deleted" => stats[j].removes = stats[j].attempts
        /\ stats[j].result = "absent" => stats[j].removes = stats[j].attempts - 1
        /\ (~Pending(j) /\ stats[j].gone_at \in 0..4) =>
              /\ stats[j].result = "absent"
              /\ stats[j].attempts = stats[j].gone_at + 1
              /\ stats[j].removes = stats[j].gone_at
              /\ stats[j].sleeps = stats[j].gone_at

\* C8: once an attempt has deleted a path or found it absent, cleanup makes no
\* further attempt for it and does not report it undeleted (its record never
\* changes again), and a finished path records what C8_Finished says.
C8_StopsAtFirstSuccess ==
    /\ []C8_Finished
    /\ [][\A j \in DOMAIN stats :
            stats[j].result \in {"deleted", "absent"} =>
                (j \in DOMAIN stats' /\ stats'[j] = stats[j])]_vars

\* C8 witness: cleanup returned; a path failed twice, was removed from outside,
\* and ended absent on the 3rd attempt.
C8_Witness ==
    /\ pc = "done"
    /\ \E j \in DOMAIN stats :
          /\ stats[j].gone_at = 2
          /\ stats[j].attempts = 3
          /\ stats[j].result = "absent"

\* C9: cleanup_temp_files is called at most once, only when every row of
\* rows_to_process has been called and its call has ended, with the list
\* accumulated by then; nothing is deleted before that call; a run that gets to
\* its final report has called it exactly once.
C9_CleanupOnceAfterAllRows ==
    /\ Len(cleanup_calls) <= 1
    /\ cleanup_calls # <<>> =>
          /\ PastLoop
          /\ calls = rows_to_process
          /\ Len(ended) = Len(calls)
          /\ cleanup_calls[1] = temp_files_to_cleanup
    /\ cleanup_calls = <<>> => removed = {}
    /\ pc \in {"summary", "done"} => Len(cleanup_calls) = 1

\* C9 witness: the run is over; a row ended in error, cleanup was called once
\* with a non-empty list and deleted a file.
C9_Witness ==
    /\ pc = "done"
    /\ error_files # <<>>
    /\ Len(cleanup_calls) = 1
    /\ cleanup_calls[1] # <<>>
    /\ removed # {}

\* C10: the calls of create_declaration_for_row are the first i rows of
\* rows_to_process, in ascending order, each once; the calls end in the order
\* they were made, at most one has not ended, and that only while the call
\* runs; past the loop every row has been called.
C10_OneCallPerRowInOrder ==
    /\ Len(calls) = i
    /\ i <= Len(rows_to_process)
    /\ calls = SubSeq(rows_to_process, 1, i)
    /\ IsAscending(calls)
    /\ Len(ended) <= Len(calls)
    /\ RowsOf(ended) = SubSeq(calls, 1, Len(ended))
    /\ Len(calls) - Len(ended) <= 1
    /\ (Len(calls) - Len(ended) = 1) <=> InFlight
    /\ PastLoop => calls = rows_to_process

\* C10 witness: the run is over; rows 2 and 3 were called once each in that
\* order, row 2 raised and was not called again, and cleanup retried a deletion.
C10_Witness ==
    /\ pc = "done"
    /\ calls = <<2, 3>>
    /\ ended[1] = <<2, "raised">>
    /\ \E j \in DOMAIN stats : stats[j].attempts > 1

\* ---------------------------------------------------------------------- C11
\* The operations that change a file or go through the engine.
Changing == {"open", "cell", "write", "save", "remove"}

\* C11: the template file is only read, to produce a copy.  No operation opens
\* it in the engine, writes a cell to it, writes or saves to it, or removes it;
\* every cell write, write, save and removal targets a temporary copy or an
\* output path, and the engine opens only the source and temporary copies.
C11_TemplateIsOnlyRead ==
    /\ \A e \in effects :
          /\ e[2] = "template" => e[1] = "read"
          /\ e[1] \in Changing \ {"open"} => e[2] \in {"temp", "out"}
          /\ e[1] = "open" => e[2] \in {"source", "temp"}
          /\ e[1] = "read" => e[2] = "template"
    /\ template_file \notin DOMAIN disk
    /\ template_file \notin removed

\* A run that copied the template, filled and saved a copy, exported a PDF and
\* deleted a temporary copy.
C11_Witness ==
    /\ {<<"read", "template">>, <<"cell", "temp">>, <<"save", "temp">>,
        <<"write", "out">>, <<"remove", "temp">>} \subseteq effects
    /\ removed # {}

\* ---------------------------------------------------------------------- C12
\* C12: a row whose extracted customer name is empty ends with None and without
\* any file: nothing on the disk carries the row, no temporary copy of the row
\* is on the cleanup list, the row is in no error entry, and when the loop
\* takes the None it appends to neither created_files nor error_files.
C12_SkipLeavesNothing ==
    /\ [](\A k \in DOMAIN ended :
            ended[k][2] = "none" =>
               LET r == ended[k][1]
               IN  /\ \A p \in DOMAIN disk : disk[p].row # r
                   /\ \A p \in removed : p.row # r
                   /\ \A j \in DOMAIN temp_files_to_cleanup :
                         temp_files_to_cleanup[j].row # r
                   /\ \A j \in DOMAIN error_files : error_files[j][1] # r)
    /\ [][(pc = "check" /\ ~Truthy(row_data.customer_name)) =>
             /\ pc' = "returned"
             /\ output_file' = NoPath
             /\ UNCHANGED <<disk, lists, effects>>]_vars
    /\ [][(pc = "returned" /\ output_file = NoPath) =>
             /\ pc' = "loop"
             /\ UNCHANGED <<disk, lists, effects>>]_vars

\* A finished run in which one row was skipped and another gave a document.
C12_Witness ==
    /\ pc = "done"
    /\ \E k \in DOMAIN ended : ended[k][2] = "none"
    /\ Len(created_files) = 1
    /\ error_files = <<>>
    /\ disk # NoFile

\* ---------------------------------------------------------------------- C13
\* C13: when the source or the template does not exist, main returns with
\* nothing done: no scan, no call for a row, no file operation, no cleanup, and
\* the output folder is as it was; when both exist, the output folder exists
\* from the start of the batch on.
C13_PreconditionsFirst ==
    /\ []((~source_exists \/ ~template_exists) =>
            /\ pc \in {"main", "aborted"}
            /\ effects = {} /\ open_books = {} /\ disk = NoFile
            /\ row_num = 0 /\ rows_to_process = <<>>
            /\ calls = <<>> /\ cleanup_calls = <<>>)
    /\ []((source_exists /\ template_exists) => pc # "aborted")
    /\ [](pc \notin {"main", "aborted"} => folder_exists)
    /\ [][(~source_exists \/ ~template_exists) => UNCHANGED folder_exists]_vars
    /\ [][pc = "main" /\ pc' = "aborted" => UNCHANGED <<env, disk, effects>>]_vars

\* main has returned because the template is missing, the source being there
\* and the output folder not.
C13_Witness ==
    /\ pc = "aborted"
    /\ source_exists
    /\ ~template_exists
    /\ ~folder_exists

\* ---------------------------------------------------------------------- C14
\* C14: no FF blend cell makes the scan raise: whatever float() cannot convert
\* (text, a date, anything else) only keeps its row out of rows_to_process, so
\* no exception ever leaves process_all_supply_blend_rows.
C14_ScanNeverRaises ==
    /\ pc # "raised"
    /\ (pc = "scan" /\ row_num <= last_row) =>
          LET e == table[row_num - 1].E
          IN  e.t # "none" => float(e).exc \in {"", "ValueError"}

\* ---------------------------------------------------------------------- C15
\* C15: process_declaration_period never raises: for every cell value,
\* including an empty cell, it returns a value, and that value is its input
\* unless the input is a text.
C15_PeriodNeverRaises ==
    applied = "process_declaration_period" =>
        /\ result.exc = ""
        /\ arg.t # "str" => result.v = arg

\* ---------------------------------------------------------------------- C16
\* The twelve month abbreviations and their ordinals 1..12.
C16_IsMonth(x) == \E m \in 2..13 : month_abbr[m] = x
C16_Ordinal(x) == (CHOOSE m \in 2..13 : month_abbr[m] = x) - 1
\* The start token and the first end token of a period text with " to ".
C16_StartToken(s) == strip(SubSeq(s, 1, SepAt(s, 1) - 1))
C16_EndToken(s) ==
    LET a == SepAt(s, 1)
        b == SepAt(s, a + 4)
    IN  FirstToken(SubSeq(s, a + 4, IF b = 0 THEN Len(s) ELSE b - 1))
\* What the claim says process_declaration_period returns for the text s.
C16_Expected(s) ==
    IF /\ SepAt(s, 1) # 0
       /\ C16_IsMonth(C16_StartToken(s))
       /\ C16_IsMonth(C16_EndToken(s))
    THEN Str(IntText(C16_Ordinal(C16_EndToken(s)) - C16_Ordinal(C16_StartToken(s)) + 1)
             \o <<" ", "m", "o", "n", "t", "h", "s", " ", "-", " ">> \o s)
    ELSE Str(s)

\* C16: for a period text, process_declaration_period returns
\* "<span> months - <input>", span = end ordinal - start ordinal + 1, exactly
\* when the start token and the first end token are both among Jan..Dec, and
\* the input unchanged in every other case (an empty or unknown token included).
C16_SpanOnlyForTwoMonths ==
    (applied = "process_declaration_period" /\ arg.t = "str") =>
        result = [exc |-> "", v |-> C16_Expected(arg.s)]

\* ---------------------------------------------------------------------- C17
\* Where a workbook is legitimately open: the source during the scan and
\* between the two steps of extract_row_data, the temporary copy between
\* xw.Book (line 218) and the end of the with block.
C17_SourceOpenAt == {"scan", "read"}
C17_TempOpenAt == {"fill", "export", "save", "close"}

\* C17: every workbook a step opened is closed when the step hands control
\* back: the source is open only inside the scan and inside extract_row_data,
\* the temporary copy only inside the with block of create_declaration_for_row,
\* so nothing is open when a call has returned or raised, in the row loop, in
\* cleanup or at the end.
C17_HandlesClosedOnReturn ==
    /\ "source" \in open_books => pc \in C17_SourceOpenAt
    /\ "temp" \in open_books => pc \in C17_TempOpenAt
    /\ pc \notin (C17_SourceOpenAt \cup C17_TempOpenAt) => open_books = {}

\* A call whose field writing raised while the temporary copy was open has
\* returned, and nothing is open.
C17_Witness ==
    /\ pc = "returned"
    /\ row_num \in fill_raised
    /\ open_books = {}

\* ---------------------------------------------------------------------- C18
\* Whether a can be had from b by leaving characters out (the order kept).
RECURSIVE C18_IsSubsequence(_, _)
C18_IsSubsequence(a, b) ==
    IF a = <<>> THEN TRUE
    ELSE IF b = <<>> THEN FALSE
    ELSE IF Head(a) = Head(b) THEN C18_IsSubsequence(Tail(a), Tail(b))
    ELSE C18_IsSubsequence(a, Tail(b))
\* The characters sanitize_filename may never drop: the allowed ones but blanks.
C18_Kept(c) == SafeChar(c) /\ ~IsSpace(c)

\* C18: sanitize_filename returns a text for every cell value (None, numbers
\* and dates through str()); the text holds alphanumerics, spaces, hyphens and
\* underscores only, in the order of the input and with none of the input's
\* non-blank allowed characters missing, does not end in whitespace, and
\* sanitizing it again gives the same text.
C18_SanitizeIsCleanAndIdempotent ==
    applied = "sanitize_filename" =>
        LET r == result.v.s
        IN  /\ result.exc = ""
            /\ result.v.t = "str"
            /\ \A j \in DOMAIN r : SafeChar(r[j])
            /\ C18_IsSubsequence(r, PyStr(arg))
            /\ SelectSeq(r, C18_Kept) = SelectSeq(PyStr(arg), C18_Kept)
            /\ r # <<>> => ~IsSpace(r[Len(r)])
            /\ sanitize_filename(Str(r)) = r

\* sanitize_filename was applied to a text whose blank becomes the last
\* character once the full stop is dropped.
C18_Witness ==
    /\ applied = "sanitize_filename"
    /\ arg = Str(<<"A", " ", ".">>)
    /\ result.v = Str(<<"A">>)

\* ---------------------------------------------------------------------- C19
\* C19: the documents of two rows are two files: no path is in created_files
\* twice, and no output of a row has been written over by a later row.
C19_OneFilePerRow ==
    /\ \A j, k \in DOMAIN created_files :
          j # k => created_files[j] # created_files[k]
    /\ \A r \in exported :
          \E p \in DOMAIN disk : p.kind = "out" /\ p.ext = "pdf" /\ disk[p].row = r

\* ---------------------------------------------------------------------- C20
\* C20: cleanup pauses only between two attempts on the same path: a path it
\* is done with had one pause less than attempts, so a path given up on had
\* MaxAttempts attempts and MaxAttempts - 1 pauses, and no pause follows the
\* attempt that ended the work on a path.
C20_PausesOnlyBetweenAttempts ==
    /\ \A j \in DOMAIN stats :
          stats[j].result # "" => stats[j].sleeps = stats[j].attempts - 1
    /\ \A j \in DOMAIN stats :
          stats[j].result = "undeleted" =>
             stats[j].attempts = MaxAttempts /\ stats[j].sleeps = MaxAttempts - 1

\* ---------------------------------------------------------------------- C21
\* Every deletion cleanup tried has succeeded (or found the file gone).
C21_CleanupSucceeded ==
    \A j \in DOMAIN stats : stats[j].result \in {"deleted", "absent"}

\* C21: when the run is over and cleanup deleted all it was given, a temporary
\* copy (temp_<row>_...) that is still on disk is the saved fallback of a row
\* whose PDF export failed; every other temporary copy is gone.
C21_LeftoverCopiesAreFallbacks ==
    (pc = "done" /\ C21_CleanupSucceeded) =>
        \A p \in DOMAIN disk :
            p.kind = "temp" => (disk[p].row \in export_failed /\ disk[p].filled)

\* ---------------------------------------------------------------------- C22
\* How many entries of error_files name row r.
C22_Errors(r) == Cardinality({j \in DOMAIN error_files : error_files[j][1] = r})
\* Whether row r is among the rows of q.
C22_In(r, q) == \E j \in DOMAIN q : q[j] = r

\* C22: once the row loop is over, every row of rows_to_process has exactly
\* one outcome: its call returned a path, which was appended to created_files,
\* or it returned None, or it raised and has exactly one error_files entry.
\* So len(created_files) + skipped rows + len(error_files) is the number of
\* eligible rows, and both lists are in ascending row order.
C22_EveryRowHasOneOutcome ==
    /\ [](PastLoop =>
            /\ \A k \in DOMAIN rows_to_process :
                  LET r == rows_to_process[k]
                      created == C22_In(r, EndedHow("path"))
                      skipped == C22_In(r, EndedHow("none"))
                      failed == C22_In(r, EndedHow("raised"))
                  IN  /\ created \/ skipped \/ failed
                      /\ ~(created /\ skipped) /\ ~(created /\ failed) /\ ~(skipped /\ failed)
                      /\ C22_Errors(r) = IF failed THEN 1 ELSE 0
            /\ Len(created_files) = Len(EndedHow("path"))
            /\ RowsOf(error_files) = EndedHow("raised")
            /\ Len(created_files) + Len(EndedHow("none")) + Len(error_files)
                  = Len(rows_to_process)
            /\ IsAscending(EndedHow("path"))
            /\ IsAscending(RowsOf(error_files)))
    /\ [][(pc = "returned" /\ output_file # NoPath) =>
             created_files' = Append(created_files, output_file)]_vars

\* The run is over: of two eligible rows the first gave a document and the
\* second raised.
C22_Witness ==
    /\ pc = "done"
    /\ Len(rows_to_process) = 2
    /\ EndedHow("path") = <<rows_to_process[1]>>
    /\ Len(created_files) = 1
    /\ RowsOf(error_files) = <<rows_to_process[2]>>

====
